---------------------------- MODULE Spec2Model ----------------------------
(***************************************************************************)
(* Model of scripts/generate-video.js: one run of main(), from argument    *)
(* parsing to process exit, with the pure functions it calls               *)
(* (buildChunks, the karaoke frame expansion, buildSvg's highlight test,   *)
(* buildConcatFile) computed as the code computes them (Spec); and of      *)
(* scripts/telegram-poll.js: any number of poll runs, one after the other, *)
(* over the bot's growing queue of updates (PollSpec).                     *)
(*                                                                         *)
(* Time is an integer number of ticks of 0.00001 s, so that 0.01 s is 1000 *)
(* ticks, 0.033 s is 3300 ticks, 0.3 s is 30000 ticks, and toFixed(4),     *)
(* which keeps four decimals, rounds to a multiple of 10 ticks.            *)
(*                                                                         *)
(* An optional JavaScript value (a style field, a frame's activeStart) is  *)
(* a sequence: << >> is undefined, <<v>> is the value v.                   *)
(***************************************************************************)
EXTENDS Integers, Sequences, FiniteSets, TLC

VARIABLES
    pc,            \* where main() stands
    mode,          \* opts.mode
    optsLang,      \* opts.lang
    raw,           \* the parsed content of the words file
    wordsData,     \* what loadWords returned
    detectedLang,  \* the language buildSvg is given
    style,         \* styleRaw, the fields buildChunks and the encoder read
    words,         \* wordsData.words || []
    audioFile,     \* "unknown" until first opened, then "present" or "missing"
    chunks,        \* result of buildChunks
    frames,        \* frames handed to the renderer
    tmpDir,        \* "none", "exists" or "removed"
    tmpFiles,      \* names of the files written under tmpDir
    audioDuration, \* the total duration used by buildConcatFile
    frameFiles,    \* {path, start, end} of every rendered frame
    svgs,          \* per rendered frame, the fill class of each word
    sharpLoaded,   \* require('sharp') has succeeded once
    lines,         \* the lines of the concat file
    failure,       \* the pending exception, "none" when there is none
    exitCode,      \* -1 while running, else the process exit code
    encoderFps,    \* the frame rate ffmpeg was started with, 0 before that
    \* telegram-poll.js and the bot's update queue
    allowedChatId, \* TELEGRAM_ALLOWED_CHAT_ID, << >> when not set
    sent,          \* the updates the bot has received; update_id is the index
    offsetFile,    \* references/telegram-offset.json, << >> when absent
    pollPc,        \* where the current poll run stands, "idle" between runs
    lastOffset,    \* main: lastOffset
    updates,       \* main: the update_ids getUpdates returned
    maxUpdateId,   \* main: maxUpdateId
    latest,        \* main: the update_id of `latest`, 0 before it is taken
    selections,    \* per run that took an update: the update and the outcome
    pollExit,      \* exit code of the last finished poll run, -1 before any
    audioOut       \* opts.output and opts.meta as last written, << >> before

\* What main reads from the command line and from the words file.
inputVars == <<optsLang, raw, wordsData, detectedLang>>

videoVars == <<pc, mode, inputVars, style, words, audioFile, chunks, frames,
               tmpDir, tmpFiles, audioDuration, frameFiles, svgs, sharpLoaded,
               lines, failure, exitCode, encoderFps>>

pollVars == <<allowedChatId, sent, offsetFile, pollPc, lastOffset, updates,
              maxUpdateId, latest, selections, pollExit, audioOut>>

vars == <<videoVars, pollVars>>

---------------------------------------------------------------------------
(* Bounds of the model *)

MaxWords == 3
MaxUpdates == 3

(* Program constants, in ticks *)

DefaultPauseThreshold == 30000
DefaultMaxChunkSize == 4
GapEpsilon == 1000
MinFrameDuration == 3300

(* Program constants, other *)

DefaultFps == 30
PollLimit == 20

---------------------------------------------------------------------------
(* Inputs *)

Modes == {"word", "chunk", "karaoke"}

\* A word is placed by <<gap after the previous word's end, length>>.
Steps ==
    { <<0, 40000>>,       \* starts where the previous word ends
      <<10000, 40000>>,   \* a 0.1 s gap
      <<110000, 50000>>,  \* a 1.1 s pause
      <<0, 0>>,           \* a zero-length word (start = end)
      <<1000, 1004>> }    \* a gap of exactly 0.01 s; a word shorter than
                          \* 0.033 s whose end is finer than 0.0001 s

PauseSettings == { << >>, <<0>>, <<5000>> }
ChunkSizeSettings == { << >>, <<1>>, <<2>> }
FpsSettings == { << >>, <<25>>, <<60>> }

\* Styles that vary the grouping, and styles that vary the frame rate.
TimelineStyles ==
    [pauseThreshold : PauseSettings, maxChunkSize : ChunkSizeSettings, fps : {<< >>}]
EncoderStyles ==
    [pauseThreshold : {<< >>}, maxChunkSize : {<< >>}, fps : FpsSettings]
Styles == TimelineStyles \cup EncoderStyles

\* --lang, when given
LangOptions == { << >>, <<"he">> }

\* What ffprobe reports: 0 stands for a failed or unparsable probe.
ProbeResults == {0, 300000, 300004}

RECURSIVE EndAt(_, _)
EndAt(st, i) == IF i = 0 THEN 0 ELSE EndAt(st, i - 1) + st[i][1] + st[i][2]

MkWords(st) ==
    [i \in 1..Len(st) |->
        [word  |-> i,
         start |-> EndAt(st, i - 1) + st[i][1],
         end   |-> EndAt(st, i)]]

WordLists == UNION { { MkWords(st) : st \in [1..n -> Steps] } : n \in 0..MaxWords }

\* The parsed words file: a bare array of words, or an object whose
\* language, language_probability and words may each be absent.
ArrayDoc(ws) ==
    [shape |-> "array", language |-> << >>, language_probability |-> << >>,
     words |-> <<ws>>]

ShortLists == { ws \in WordLists : Len(ws) <= 1 }

ArrayDocs == { ArrayDoc(ws) : ws \in WordLists }

ObjectDocs ==
    { [shape |-> "object", language |-> l,
       language_probability |-> IF l = << >> THEN << >> ELSE <<1>>,
       words |-> w] :
         l \in { << >>, <<"ar">> },
         w \in { << >> } \cup { <<ws>> : ws \in ShortLists } }

\* The runs of the model: every word list as a bare array under every
\* grouping style and no --lang; and the short documents of both shapes
\* under every frame rate, with and without --lang.
ShortDocs == ObjectDocs \cup { ArrayDoc(ws) : ws \in ShortLists }

InputsFor(lang) ==
    IF lang = << >>
    THEN (ArrayDocs \X TimelineStyles) \cup (ShortDocs \X EncoderStyles)
    ELSE ShortDocs \X EncoderStyles

\* The input invariant the program assumes and does not enforce.
InputInvariant(ws) ==
    /\ \A i \in 1..Len(ws) : ws[i].start >= 0 /\ ws[i].start < ws[i].end
    /\ \A i \in 1..(Len(ws) - 1) :
          /\ ws[i].start <= ws[i + 1].start
          /\ ws[i].end <= ws[i + 1].start

---------------------------------------------------------------------------
(* JavaScript helpers *)

\* (v || d) for an optional number: undefined and 0 are falsy.
OrElse(opt, d) == IF opt # << >> /\ opt[1] # 0 THEN opt[1] ELSE d

\* Number.prototype.toFixed(4) of a non-negative number of ticks.
ToFixed4(x) == ((x + 5) \div 10) * 10

\* (s || d) for an optional string: undefined and "" are falsy.
StrOrElse(opt, d) == IF opt # << >> /\ opt[1] # "" THEN opt[1] ELSE d

Last(s) == s[Len(s)]

RECURSIVE SumSeq(_)
SumSeq(s) == IF Len(s) = 0 THEN 0 ELSE s[1] + SumSeq(Tail(s))

RECURSIVE Flatten(_)
Flatten(ss) == IF Len(ss) = 0 THEN << >> ELSE ss[1] \o Flatten(Tail(ss))

---------------------------------------------------------------------------
(* loadWords, and what main takes from its result *)

NoWordsData == [language |-> << >>, language_probability |-> << >>, words |-> << >>]

\* Mutant: a bare array is handed on without the wrapper's language.
LoadWords_NoLanguage(doc) ==
    [language |-> << >>, language_probability |-> doc.language_probability,
     words |-> doc.words]

LoadWords(doc) ==
    IF doc.shape = "array"
    THEN [language |-> <<"en">>, language_probability |-> <<1>>, words |-> doc.words]
    ELSE [language |-> doc.language,
          language_probability |-> doc.language_probability,
          words |-> doc.words]

\* wordsData.words || []
WordsOf(wd) == IF wd.words = << >> THEN << >> ELSE wd.words[1]

\* opts.lang || wordsData.language || 'en'
DetectedLang(lang, wd) == StrOrElse(lang, StrOrElse(wd.language, "en"))

---------------------------------------------------------------------------
(* buildChunks *)

PauseThresholdOf(st) == OrElse(st.pauseThreshold, DefaultPauseThreshold)

MaxChunkSizeOf(st) == OrElse(st.maxChunkSize, DefaultMaxChunkSize)

\* Mutant: the unit's end taken from the word's start.
WordUnit_EndFromStart(w) == [words |-> <<w>>, start |-> w.start, end |-> w.start]

WordUnit(w) == [words |-> <<w>>, start |-> w.start, end |-> w.end]

IsNaturalPause(w, prev, pauseThreshold) == (w.start - prev.end) > pauseThreshold

\* Mutant: the size test lets one word too many in.
IsFull_Late(current, maxChunkSize) == Len(current) > maxChunkSize

\* Mutant: the size test closes the unit one word early.
IsFull_Early(current, maxChunkSize) == Len(current) + 1 >= maxChunkSize

IsFull(current, maxChunkSize) == Len(current) >= maxChunkSize

\* Mutant: the unit's end taken from its first word.
CloseChunk_EndOfFirst(current) ==
    [words |-> current, start |-> current[1].start, end |-> current[1].end]

CloseChunk(current) ==
    [words |-> current, start |-> current[1].start, end |-> Last(current).end]

RECURSIVE ChunkLoop(_, _, _, _, _, _)
ChunkLoop(ws, i, acc, current, pauseThreshold, maxChunkSize) ==
    IF i > Len(ws)
    THEN IF Len(current) > 0 THEN Append(acc, CloseChunk(current)) ELSE acc
    ELSE IF Len(current) = 0
         THEN ChunkLoop(ws, i + 1, acc, <<ws[i]>>, pauseThreshold, maxChunkSize)
         ELSE IF \/ IsNaturalPause(ws[i], Last(current), pauseThreshold)
                 \/ IsFull(current, maxChunkSize)
              THEN ChunkLoop(ws, i + 1, Append(acc, CloseChunk(current)),
                             <<ws[i]>>, pauseThreshold, maxChunkSize)
              ELSE ChunkLoop(ws, i + 1, acc, Append(current, ws[i]),
                             pauseThreshold, maxChunkSize)

BuildChunks(ws, st, m) ==
    IF m = "word"
    THEN [i \in 1..Len(ws) |-> WordUnit(ws[i])]
    ELSE ChunkLoop(ws, 1, << >>, << >>, PauseThresholdOf(st), MaxChunkSizeOf(st))

---------------------------------------------------------------------------
(* main: the frame rate handed to the encoder with -r *)

FpsOf(st) == OrElse(st.fps, DefaultFps)

---------------------------------------------------------------------------
(* main: karaoke frame expansion *)

\* A chunk handed on as a frame carries no active window.
PlainFrame(c) ==
    [words |-> c.words, start |-> c.start, end |-> c.end,
     activeStart |-> << >>, activeEnd |-> << >>]

\* Mutant: the active window taken from the chunk, not from the word.
KaraokeFrame_ChunkWindow(c, wo) ==
    [words |-> c.words, start |-> wo.start, end |-> wo.end,
     activeStart |-> <<c.start>>, activeEnd |-> <<c.end>>]

KaraokeFrame(c, wo) ==
    [words |-> c.words, start |-> wo.start, end |-> wo.end,
     activeStart |-> <<wo.start>>, activeEnd |-> <<wo.end>>]

ExpandChunk(c) == [k \in 1..Len(c.words) |-> KaraokeFrame(c, c.words[k])]

ExpandFrames(cs, m) ==
    IF m = "karaoke" /\ Len(cs) > 0
    THEN Flatten([j \in 1..Len(cs) |-> ExpandChunk(cs[j])])
    ELSE [j \in 1..Len(cs) |-> PlainFrame(cs[j])]

---------------------------------------------------------------------------
(* buildSvg: the fill class of every word of the frame *)

IsActive(wo, activeStart, activeEnd) ==
    /\ wo.start <= OrElse(activeEnd, wo.end)
    /\ wo.end >= OrElse(activeStart, wo.start)

BuildSvg(f, m) ==
    IF m = "karaoke"
    THEN [k \in 1..Len(f.words) |->
            IF IsActive(f.words[k], f.activeStart, f.activeEnd)
            THEN "highlight" ELSE "normal"]
    ELSE [k \in 1..Len(f.words) |-> "normal"]

---------------------------------------------------------------------------
(* buildConcatFile *)

BlankPath == [name |-> "frame_blank", n |-> 0]
FramePath(i) == [name |-> "frame", n |-> i]

FileLine(p) == <<"file", p>>
DurationLine(d) == <<"duration", ToFixed4(d)>>

\* Mutant: a gap of exactly 0.01 s gets a filler too.
NeedsGap_Inclusive(gapBefore) == gapBefore >= GapEpsilon

NeedsGap(gapBefore) == gapBefore > GapEpsilon

ContentDuration(f) ==
    IF f.end - f.start > MinFrameDuration THEN f.end - f.start ELSE MinFrameDuration

NeedsTail(cursor, total) == cursor < total - GapEpsilon

\* The loop over frameFiles: <<lines, cursor>> after the frames from i on.
RECURSIVE ConcatLoop(_, _, _, _)
ConcatLoop(ff, i, ls, cursor) ==
    IF i > Len(ff)
    THEN <<ls, cursor>>
    ELSE LET f         == ff[i]
             gapBefore == f.start - cursor
             withGap   == IF NeedsGap(gapBefore)
                          THEN ls \o <<FileLine(BlankPath), DurationLine(gapBefore)>>
                          ELSE ls
         IN  ConcatLoop(ff, i + 1,
                        withGap \o <<FileLine(f.path), DurationLine(ContentDuration(f))>>,
                        f.end)

FileLinesOf(ls) == SelectSeq(ls, LAMBDA l : l[1] = "file")

\* Mutant: the else branch writes the blank file without its duration.
EmptyTimeline_NoDuration(total) == <<FileLine(BlankPath)>>

\* The else branch: no line was written at all.
EmptyTimeline(total) ==
    <<FileLine(BlankPath), DurationLine(total), FileLine(BlankPath)>>

BuildConcatFile(ff, total) ==
    LET r        == ConcatLoop(ff, 1, << >>, 0)
        cursor   == r[2]
        filled   == IF NeedsTail(cursor, total)
                    THEN r[1] \o <<FileLine(BlankPath), DurationLine(total - cursor)>>
                    ELSE r[1]
        fileOnly == FileLinesOf(filled)
    IN  IF Len(fileOnly) > 0
        THEN Append(filled, Last(fileOnly))
        ELSE filled \o EmptyTimeline(total)

\* The timed entries of a concat file, as the concat demuxer reads them:
\* every file line that a duration line follows.
TimedAt(ls) ==
    { i \in 1..(Len(ls) - 1) : ls[i][1] = "file" /\ ls[i + 1][1] = "duration" }

RECURSIVE EntriesFrom(_, _)
EntriesFrom(ls, i) ==
    IF i >= Len(ls) THEN << >>
    ELSE IF i \in TimedAt(ls)
         THEN <<[path |-> ls[i][2], duration |-> ls[i + 1][2]]>> \o EntriesFrom(ls, i + 2)
         ELSE EntriesFrom(ls, i + 1)

Entries(ls) == EntriesFrom(ls, 1)

---------------------------------------------------------------------------
(* telegram-poll.js *)

\* TELEGRAM_ALLOWED_CHAT_ID: not set, or the chat 1.
AllowedChatIds == { << >>, <<1>> }

\* What the bot receives: a message of some kind from some chat, or an
\* update that carries no message (an edited message, a callback query).
MessageKinds == {"voice", "audio", "audioDocument", "text"}
Chats == {1, 2}
UpdateValues ==
    [kind : MessageKinds, chat : Chats] \cup {[kind |-> "noMessage", chat |-> 0]}

\* loadOffset: data.offset || 0, and 0 when the file cannot be read.
LoadOffset(file) == OrElse(file, 0)

\* Mutant: the offset saved is the last update received, not the one after.
NextOffset_SameUpdate(maxId) == maxId

\* The offset main saves and writes to the metadata.
NextOffset(maxId) == maxId + 1

\* getUpdates {offset, limit, timeout: 0}: the update_ids not below offset,
\* oldest first, at most limit of them.
GetUpdates(log, offset, limit) ==
    LET first == IF offset < 1 THEN 1 ELSE offset
        avail == IF Len(log) < first THEN 0 ELSE Len(log) - first + 1
        count == IF avail < limit THEN avail ELSE limit
    IN  [k \in 1..count |-> first + k - 1]

\* The filter of main: a message, from the allowed chat when one is set,
\* with a voice, an audio or a document of an audio mime type.
IsAudioUpdate(u, allowed) ==
    /\ u.kind # "noMessage"
    /\ ~(OrElse(allowed, 0) # 0 /\ u.chat # OrElse(allowed, 0))
    /\ u.kind \in {"voice", "audio", "audioDocument"}

AudioUpdates(log, ids, allowed) ==
    LET Keep(id) == IsAudioUpdate(log[id], allowed)
    IN  SelectSeq(ids, Keep)

\* Math.max(...updates.map(u => u.update_id))
MaxUpdateId(ids) ==
    CHOOSE m \in {ids[k] : k \in 1..Len(ids)} : \A k \in 1..Len(ids) : ids[k] <= m

\* The file name main derives from the message.
FileNameOf(u) ==
    IF u.kind = "voice" THEN "voice.ogg"
    ELSE IF u.kind = "audio" THEN "audio.mp3"
    ELSE "audio"

---------------------------------------------------------------------------
(* main *)

VideoInit ==
    /\ pc = "parseArgs"
    /\ mode = "chunk"
    /\ optsLang = << >>
    /\ raw = ArrayDoc(<< >>)
    /\ wordsData = NoWordsData
    /\ detectedLang = ""
    /\ style = [pauseThreshold |-> << >>, maxChunkSize |-> << >>, fps |-> << >>]
    /\ words = << >>
    /\ audioFile = "unknown"
    /\ chunks = << >>
    /\ frames = << >>
    /\ tmpDir = "none"
    /\ tmpFiles = {}
    /\ audioDuration = 0
    /\ frameFiles = << >>
    /\ svgs = << >>
    /\ sharpLoaded = FALSE
    /\ lines = << >>
    /\ failure = "none"
    /\ exitCode = -1
    /\ encoderFps = 0

\* telegram-poll.js before its first run: no update received, no offset file.
PollStateInit(allowed) ==
    /\ allowedChatId = allowed
    /\ sent = << >>
    /\ offsetFile = << >>
    /\ pollPc = "idle"
    /\ lastOffset = 0
    /\ updates = << >>
    /\ maxUpdateId = 0
    /\ latest = 0
    /\ selections = << >>
    /\ pollExit = -1
    /\ audioOut = << >>

Init == VideoInit /\ PollStateInit(<< >>)

\* process.exit(code): the process ends at once; no finally block runs.
ProcessExit(code) ==
    /\ pc' = "exited"
    /\ exitCode' = code

\* parseArgs: --words and --audio are required; --mode is taken as given.
ParseArgs ==
    /\ pc = "parseArgs"
    /\ \/ /\ \E m \in Modes : mode' = m
          /\ \E l \in LangOptions : optsLang' = l
          /\ pc' = "load"
          /\ UNCHANGED <<exitCode, failure>>
       \/ /\ failure' = "a required argument is missing"
          /\ ProcessExit(1)
          /\ UNCHANGED <<mode, optsLang>>
    /\ UNCHANGED <<raw, wordsData, detectedLang, audioFile, encoderFps, pollVars>>
    /\ UNCHANGED <<style, words, chunks, frames, tmpDir, tmpFiles, audioDuration,
                   frameFiles, svgs, sharpLoaded, lines>>

\* main, "Load inputs": loadWords and the style file.  A missing or
\* malformed words file throws; main().catch reports it and exits with 1.
LoadInputs ==
    /\ pc = "load"
    /\ \/ /\ \E in \in InputsFor(optsLang) :
                /\ raw' = in[1]
                /\ wordsData' = LoadWords(in[1])
                /\ words' = WordsOf(LoadWords(in[1]))
                /\ detectedLang' = DetectedLang(optsLang, LoadWords(in[1]))
                /\ style' = in[2]
          /\ pc' = "chunks"
          /\ UNCHANGED <<failure, exitCode>>
       \/ /\ \E why \in {"words file missing", "words file malformed"} : failure' = why
          /\ ProcessExit(1)
          /\ UNCHANGED <<raw, wordsData, words, detectedLang, style>>
    /\ UNCHANGED <<mode, optsLang, audioFile, encoderFps, pollVars>>
    /\ UNCHANGED <<chunks, frames, tmpDir, tmpFiles, audioDuration,
                   frameFiles, svgs, sharpLoaded, lines>>

\* main, "Build chunks"
BuildChunksStep ==
    /\ UNCHANGED <<inputVars, audioFile, encoderFps, pollVars>>
    /\ pc = "chunks"
    /\ chunks' = IF Len(words) > 0 THEN BuildChunks(words, style, mode) ELSE << >>
    /\ pc' = "expand"
    /\ UNCHANGED <<mode, style, words, frames, tmpDir, tmpFiles, audioDuration,
                   frameFiles, svgs, sharpLoaded, lines, failure, exitCode>>

\* main, "For karaoke, expand to one frame per word"
ExpandStep ==
    /\ UNCHANGED <<inputVars, audioFile, encoderFps, pollVars>>
    /\ pc = "expand"
    /\ frames' = ExpandFrames(chunks, mode)
    /\ pc' = "mkdtemp"
    /\ UNCHANGED <<mode, style, words, chunks, tmpDir, tmpFiles, audioDuration,
                   frameFiles, svgs, sharpLoaded, lines, failure, exitCode>>

\* main, "Create temp directory"
MakeTmpDir ==
    /\ UNCHANGED <<inputVars, audioFile, encoderFps, pollVars>>
    /\ pc = "mkdtemp"
    /\ tmpDir' = "exists"
    /\ pc' = "probe"
    /\ UNCHANGED <<mode, style, words, chunks, frames, tmpFiles, audioDuration,
                   frameFiles, svgs, sharpLoaded, lines, failure, exitCode>>

\* main, "Get audio duration via ffprobe; fall back to last word's end time".
\* Nothing before this line opens the audio file; ffprobe on a missing file
\* exits with an error and getAudioDuration resolves 0.
ProbeDuration ==
    /\ UNCHANGED <<inputVars, encoderFps, pollVars>>
    /\ pc = "probe"
    /\ \E there \in {"present", "missing"} :
          /\ audioFile' = there
          /\ \E probe \in (IF there = "present" THEN ProbeResults ELSE {0}) :
                audioDuration' = IF probe = 0 /\ Len(words) > 0
                                 THEN Last(words).end ELSE probe
    /\ pc' = IF Len(frames) > 0 THEN "render" ELSE "blank"
    /\ UNCHANGED <<mode, style, words, chunks, frames, tmpDir, tmpFiles,
                   frameFiles, svgs, sharpLoaded, lines, failure, exitCode>>

\* renderFrame when sharp cannot be required: process.exit(1) inside the try.
SharpMissing ==
    /\ UNCHANGED <<inputVars, audioFile, encoderFps, pollVars>>
    /\ pc \in {"render", "blank"}
    /\ ~sharpLoaded
    /\ failure' = "sharp is not installed"
    /\ ProcessExit(1)
    /\ UNCHANGED <<mode, style, words, chunks, frames, tmpDir, tmpFiles,
                   audioDuration, frameFiles, svgs, sharpLoaded, lines>>

\* renderFrame rejects: the exception leaves the try block.
RenderThrows ==
    /\ UNCHANGED <<inputVars, audioFile, encoderFps, pollVars>>
    /\ pc \in {"render", "blank"}
    /\ failure' = "rasterization failed"
    /\ sharpLoaded' = TRUE
    /\ pc' = "finally"
    /\ UNCHANGED <<mode, style, words, chunks, frames, tmpDir, tmpFiles,
                   audioDuration, frameFiles, svgs, lines, exitCode>>

\* main, "Generate PNG frames": one pass of the loop.
RenderFrame ==
    /\ UNCHANGED <<inputVars, audioFile, encoderFps, pollVars>>
    /\ pc = "render"
    /\ Len(frameFiles) < Len(frames)
    /\ LET i == Len(frameFiles)
           f == frames[i + 1]
       IN  /\ svgs' = Append(svgs, BuildSvg(f, mode))
           /\ frameFiles' = Append(frameFiles,
                                   [path |-> FramePath(i), start |-> f.start, end |-> f.end])
           /\ tmpFiles' = tmpFiles \cup {FramePath(i)}
    /\ sharpLoaded' = TRUE
    /\ pc' = IF Len(frameFiles') = Len(frames) THEN "blank" ELSE "render"
    /\ UNCHANGED <<mode, style, words, chunks, frames, tmpDir, audioDuration,
                   lines, failure, exitCode>>

\* main, "Also generate a blank (black) frame for gaps and start/end"
RenderBlank ==
    /\ UNCHANGED <<inputVars, audioFile, encoderFps, pollVars>>
    /\ pc = "blank"
    /\ Len(frameFiles) = Len(frames)
    /\ tmpFiles' = tmpFiles \cup {BlankPath}
    /\ sharpLoaded' = TRUE
    /\ pc' = "concat"
    /\ UNCHANGED <<mode, style, words, chunks, frames, tmpDir, audioDuration,
                   frameFiles, svgs, lines, failure, exitCode>>

\* main, "Build concat file with proper timing including gaps"
WriteConcat ==
    /\ UNCHANGED <<inputVars, audioFile, encoderFps, pollVars>>
    /\ pc = "concat"
    /\ lines' = BuildConcatFile(frameFiles, audioDuration)
    /\ tmpFiles' = tmpFiles \cup {[name |-> "input", n |-> 0]}
    /\ pc' = "ffmpeg"
    /\ UNCHANGED <<mode, style, words, chunks, frames, tmpDir, audioDuration,
                   frameFiles, svgs, sharpLoaded, failure, exitCode>>

\* main, "Run FFmpeg": runFFmpeg resolves on exit code 0 and rejects on a
\* non-zero exit code or when ffmpeg cannot be started.  With the audio
\* input missing ffmpeg exits with a non-zero code.
RunFFmpeg ==
    /\ UNCHANGED <<inputVars, audioFile, pollVars>>
    /\ pc = "ffmpeg"
    /\ encoderFps' = FpsOf(style)
    /\ \E outcome \in (IF audioFile = "missing"
                        THEN {"FFmpeg exited with code 1", "Failed to start ffmpeg"}
                        ELSE {"none", "FFmpeg exited with code 1", "Failed to start ffmpeg"}) :
          failure' = outcome
    /\ pc' = "finally"
    /\ UNCHANGED <<mode, style, words, chunks, frames, tmpDir, tmpFiles,
                   audioDuration, frameFiles, svgs, sharpLoaded, lines, exitCode>>

\* main's finally block, then the end of the process: exit code 0 when main
\* resolved, main().catch and process.exit(1) when it rejected.
Finally ==
    /\ UNCHANGED <<inputVars, audioFile, encoderFps, pollVars>>
    /\ pc = "finally"
    /\ tmpDir' = "removed"
    /\ tmpFiles' = {}
    /\ ProcessExit(IF failure = "none" THEN 0 ELSE 1)
    /\ UNCHANGED <<mode, style, words, chunks, frames, audioDuration, frameFiles,
                   svgs, sharpLoaded, lines, failure>>

Next ==
    \/ ParseArgs
    \/ LoadInputs
    \/ BuildChunksStep
    \/ ExpandStep
    \/ MakeTmpDir
    \/ ProbeDuration
    \/ SharpMissing
    \/ RenderThrows
    \/ RenderFrame
    \/ RenderBlank
    \/ WriteConcat
    \/ RunFFmpeg
    \/ Finally

Spec == Init /\ [][Next]_vars

---------------------------------------------------------------------------
(* telegram-poll.js: main, one run after the other *)

\* process.exit(code) of a poll run; the next run starts from "idle".
PollExits(code) ==
    /\ pollPc' = "idle"
    /\ pollExit' = code

\* The outcome of the run that took the last selection.
Settle(outcome) ==
    selections' = [selections EXCEPT ![Len(selections)].outcome = outcome]

\* Somebody sends the bot a message; Telegram numbers the updates 1, 2, ...
SendUpdate ==
    /\ Len(sent) < MaxUpdates
    /\ \E u \in UpdateValues : sent' = Append(sent, u)
    /\ UNCHANGED <<allowedChatId, offsetFile, pollPc, lastOffset, updates,
                   maxUpdateId, latest, selections, pollExit, audioOut>>
    /\ UNCHANGED videoVars

\* A run starts: parseArgs, allowedChatId, loadOffset.
StartPoll ==
    /\ pollPc = "idle"
    /\ lastOffset' = LoadOffset(offsetFile)
    /\ updates' = << >>
    /\ maxUpdateId' = 0
    /\ latest' = 0
    /\ pollExit' = -1
    /\ pollPc' = "getUpdates"
    /\ UNCHANGED <<allowedChatId, sent, offsetFile, selections, audioOut>>
    /\ UNCHANGED videoVars

\* await telegramApi(getUpdates): the updates, or a rejection that
\* main().catch turns into exit code 1.
FetchUpdates ==
    /\ pollPc = "getUpdates"
    /\ \/ /\ updates' = GetUpdates(sent, lastOffset, PollLimit)
          /\ pollPc' = "filter"
          /\ UNCHANGED pollExit
       \/ /\ PollExits(1)
          /\ UNCHANGED updates
    /\ UNCHANGED <<allowedChatId, sent, offsetFile, lastOffset, maxUpdateId,
                   latest, selections, audioOut>>
    /\ UNCHANGED videoVars

\* From "No new updates" to "Take the most recent audio message": exit 2
\* on an empty answer; else the offset is saved past all received updates;
\* exit 2 when none of them is an audio message; else the last one is taken.
TakeLatest ==
    /\ pollPc = "filter"
    /\ IF updates = << >>
       THEN /\ PollExits(2)
            /\ UNCHANGED <<offsetFile, maxUpdateId, latest, selections>>
       ELSE /\ maxUpdateId' = MaxUpdateId(updates)
            /\ offsetFile' = <<NextOffset(MaxUpdateId(updates))>>
            /\ LET audioUpdates == AudioUpdates(sent, updates, allowedChatId)
               IN  IF audioUpdates = << >>
                   THEN /\ PollExits(2)
                        /\ UNCHANGED <<latest, selections>>
                   ELSE /\ latest' = Last(audioUpdates)
                        /\ selections' = Append(selections,
                               [update |-> Last(audioUpdates), outcome |-> "pending"])
                        /\ pollPc' = "getFile"
                        /\ UNCHANGED pollExit
    /\ UNCHANGED <<allowedChatId, sent, lastOffset, updates, audioOut>>
    /\ UNCHANGED videoVars

\* await telegramApi(getFile)
GetFile ==
    /\ pollPc = "getFile"
    /\ \/ /\ pollPc' = "download"
          /\ UNCHANGED <<pollExit, selections>>
       \/ /\ PollExits(1)
          /\ Settle("failed")
    /\ UNCHANGED <<allowedChatId, sent, offsetFile, lastOffset, updates,
                   maxUpdateId, latest, audioOut>>
    /\ UNCHANGED videoVars

\* await httpGet(downloadUrl), then the audio file and the metadata are
\* written and the run exits with 0.
Download ==
    /\ pollPc = "download"
    /\ \/ /\ audioOut' = <<[update |-> latest, chat |-> sent[latest].chat,
                            file_name |-> FileNameOf(sent[latest]),
                            offset |-> NextOffset(maxUpdateId)]>>
          /\ Settle("downloaded")
          /\ PollExits(0)
       \/ /\ PollExits(1)
          /\ Settle("failed")
          /\ UNCHANGED audioOut
    /\ UNCHANGED <<allowedChatId, sent, offsetFile, lastOffset, updates,
                   maxUpdateId, latest>>
    /\ UNCHANGED videoVars

PollInit == VideoInit /\ \E allowed \in AllowedChatIds : PollStateInit(allowed)

PollNext ==
    \/ SendUpdate
    \/ StartPoll
    \/ FetchUpdates
    \/ TakeLatest
    \/ GetFile
    \/ Download

PollSpec == PollInit /\ [][PollNext]_vars

---------------------------------------------------------------------------
(* Vocabulary of the properties *)

Abs(x) == IF x < 0 THEN -x ELSE x

\* buildChunks has run / the frames are built / the concat file is built.
Chunked == pc \notin {"parseArgs", "load", "chunks"} /\ failure \notin
              {"a required argument is missing", "words file missing", "words file malformed"}
Expanded == Chunked /\ pc # "expand"
Compiled == lines # << >>

\* The style's value when it gives one, the documented default otherwise.
ConfiguredPauseThreshold ==
    IF style.pauseThreshold = << >> THEN DefaultPauseThreshold ELSE style.pauseThreshold[1]
ConfiguredMaxChunkSize ==
    IF style.maxChunkSize = << >> THEN DefaultMaxChunkSize ELSE style.maxChunkSize[1]

Grouping == mode \in {"chunk", "karaoke"}

\* The unit that holds the i-th input word.
UnitOf(i) == CHOOSE j \in 1..Len(chunks) :
                \E k \in 1..Len(chunks[j].words) : chunks[j].words[k].word = i

\* The number of words in the units before unit j.
RECURSIVE WordsBefore(_)
WordsBefore(j) == IF j <= 1 THEN 0 ELSE WordsBefore(j - 1) + Len(chunks[j - 1].words)

DurationsOf(ls) == [i \in 1..Len(Entries(ls)) |-> Entries(ls)[i].duration]

---------------------------------------------------------------------------
(* C1: for a non-empty word list that satisfies the input invariant, in    *)
(* every mode and for every total duration, the durations of the timed     *)
(* entries of the concat file sum to the total duration within 0.02 s.     *)
C1_SumMatchesTotal ==
    (Compiled /\ Len(words) > 0 /\ InputInvariant(words))
        => Abs(SumSeq(DurationsOf(lines)) - audioDuration) <= 2000

---------------------------------------------------------------------------
(* C2: in chunk and karaoke mode, with maxChunkSize >= 1 (configured, or   *)
(* the default), no unit of buildChunks holds more than maxChunkSize words.*)
C2_UnitWithinMaxChunkSize ==
    (Chunked /\ Grouping /\ ConfiguredMaxChunkSize >= 1)
        => \A j \in 1..Len(chunks) : Len(chunks[j].words) <= ConfiguredMaxChunkSize

C2_Witness ==
    /\ Chunked /\ mode = "karaoke" /\ style.maxChunkSize = <<2>>
    /\ Len(words) = 3 /\ Len(chunks) = 2
    /\ Len(chunks[1].words) = 2
    /\ words[3].start - words[2].end > ConfiguredPauseThreshold

---------------------------------------------------------------------------
(* C3: in chunk mode, when two consecutive words lie in different units    *)
(* and their gap is at most pauseThreshold, the unit that ends with the    *)
(* first of them holds exactly maxChunkSize words.                         *)
C3_SplitWithoutPauseIsForced ==
    (Chunked /\ mode = "chunk" /\ ConfiguredMaxChunkSize >= 1)
        => \A i \in 1..(Len(words) - 1) :
              ( /\ UnitOf(i) # UnitOf(i + 1)
                /\ words[i + 1].start - words[i].end <= ConfiguredPauseThreshold )
              => Len(chunks[UnitOf(i)].words) = ConfiguredMaxChunkSize

C3_Witness ==
    /\ Chunked /\ mode = "chunk" /\ style.maxChunkSize = <<2>>
    /\ Len(words) = 3 /\ Len(chunks) = 2
    /\ UnitOf(2) = 1 /\ UnitOf(3) = 2
    /\ words[3].start - words[2].end <= ConfiguredPauseThreshold

---------------------------------------------------------------------------
(* C4: in karaoke mode there is exactly one frame per word of every unit,  *)
(* in word order; the frame of word w has activeStart = w.start and        *)
(* activeEnd = w.end and carries its unit's whole word list.  In word and  *)
(* chunk mode the frames are the units, one to one.                        *)
C4_FrameExpansion ==
    Expanded =>
        IF mode = "karaoke"
        THEN /\ Len(frames) = Len(words)
             /\ \A j \in 1..Len(chunks) : \A k \in 1..Len(chunks[j].words) :
                   LET f == frames[WordsBefore(j) + k]
                       w == chunks[j].words[k]
                   IN  /\ f.activeStart = <<w.start>>
                       /\ f.activeEnd = <<w.end>>
                       /\ f.words = chunks[j].words
        ELSE /\ Len(frames) = Len(chunks)
             /\ \A j \in 1..Len(chunks) :
                   /\ frames[j].words = chunks[j].words
                   /\ frames[j].start = chunks[j].start
                   /\ frames[j].end = chunks[j].end
                   /\ frames[j].activeStart = << >>
                   /\ frames[j].activeEnd = << >>

C4_Witness ==
    /\ Expanded /\ mode = "karaoke"
    /\ Len(chunks) = 2 /\ Len(chunks[1].words) = 2 /\ Len(frames) = 3
    /\ frames[2].words = chunks[1].words
    /\ frames[2].activeStart = <<words[2].start>>

---------------------------------------------------------------------------
(* C5: in word mode buildChunks returns one unit per input word, in the    *)
(* input order; the i-th unit holds only the i-th word and has that        *)
(* word's start and end.                                                   *)
C5_WordModeOneUnitPerWord ==
    (Chunked /\ mode = "word")
        => /\ Len(chunks) = Len(words)
           /\ \A i \in 1..Len(words) :
                 /\ chunks[i].words = <<words[i]>>
                 /\ chunks[i].start = words[i].start
                 /\ chunks[i].end = words[i].end

C5_Witness ==
    /\ Chunked /\ mode = "word" /\ Len(words) = 3 /\ Len(chunks) = 3
    /\ words[2].start = words[1].end
    /\ chunks[3].words = <<words[3]>>

---------------------------------------------------------------------------
(* The timeline the chunk-mode pipeline is expected to produce: for each   *)
(* unit a filler when the gap before it exceeds 0.01 s, then its content   *)
(* entry, and a final filler when the cursor is more than 0.01 s short of  *)
(* the total.  asWritten = FALSE gives the raw durations; asWritten = TRUE *)
(* gives the content its floor of 0.033 s and every duration its four      *)
(* decimals.                                                               *)

\* x to four decimals: the multiple of 10 ticks nearest to x, halves up.
Round4(x) == CHOOSE r \in (x - 4)..(x + 5) : r % 10 = 0

FillerEntry(d, asWritten) ==
    [path |-> BlankPath, duration |-> IF asWritten THEN Round4(d) ELSE d]

ContentEntry(u, j, asWritten) ==
    [path |-> FramePath(j - 1),
     duration |-> IF ~asWritten THEN u.end - u.start
                  ELSE IF u.end - u.start < 3300 THEN 3300
                  ELSE Round4(u.end - u.start)]

RECURSIVE ExpectedTimeline(_, _, _, _, _)
ExpectedTimeline(us, j, cursor, total, asWritten) ==
    IF j > Len(us)
    THEN IF cursor < total - 1000
         THEN <<FillerEntry(total - cursor, asWritten)>> ELSE << >>
    ELSE (IF us[j].start - cursor > 1000
          THEN <<FillerEntry(us[j].start - cursor, asWritten)>> ELSE << >>)
         \o <<ContentEntry(us[j], j, asWritten)>>
         \o ExpectedTimeline(us, j + 1, us[j].end, total, asWritten)

\* hello(0.0,0.4) world(0.5,0.9) today(2.0,2.5), pauseThreshold 0.3,
\* maxChunkSize 4, totalDuration 3.0
IsExampleRun ==
    /\ words = << [word |-> 1, start |-> 0, end |-> 40000],
                  [word |-> 2, start |-> 50000, end |-> 90000],
                  [word |-> 3, start |-> 200000, end |-> 250000] >>
    /\ ConfiguredPauseThreshold = 30000
    /\ ConfiguredMaxChunkSize = 4
    /\ audioDuration = 300000

ExampleOutcome ==
    /\ chunks = << [words |-> <<words[1], words[2]>>, start |-> 0, end |-> 90000],
                   [words |-> <<words[3]>>, start |-> 200000, end |-> 250000] >>
    /\ Entries(lines) = << [path |-> FramePath(0), duration |-> 90000],
                           [path |-> BlankPath, duration |-> 110000],
                           [path |-> FramePath(1), duration |-> 50000],
                           [path |-> BlankPath, duration |-> 50000] >>

(* C6, as claimed: in chunk mode, on a non-empty list of ordered and       *)
(* non-overlapping words, the timeline is, per unit, a filler of           *)
(* unit.start - cursor exactly when that gap exceeds 0.01 s, then a        *)
(* content entry of unit.end - unit.start, and a final filler of           *)
(* totalDuration - cursor exactly when the cursor is below totalDuration   *)
(* - 0.01; the hello/world/today example gives content 0.9, filler 1.1,    *)
(* content 0.5, filler 0.5.                                                *)
C6_TimelineAsClaimed ==
    (Compiled /\ mode = "chunk" /\ Len(words) > 0 /\ InputInvariant(words))
        => /\ Entries(lines) = ExpectedTimeline(chunks, 1, 0, audioDuration, FALSE)
           /\ IsExampleRun => ExampleOutcome

(* C6, amended: the same, with the content entry of duration               *)
(* max(unit.end - unit.start, 0.033 s) and every duration written to four  *)
(* decimals.                                                               *)
C6_TimelineAsWritten ==
    (Compiled /\ mode = "chunk" /\ Len(words) > 0 /\ InputInvariant(words))
        => /\ Entries(lines) = ExpectedTimeline(chunks, 1, 0, audioDuration, TRUE)
           /\ IsExampleRun => ExampleOutcome

C6_Witness ==
    /\ Compiled /\ mode = "chunk" /\ IsExampleRun /\ ExampleOutcome

---------------------------------------------------------------------------
(* C7, as claimed: with an empty word list the timeline has exactly one    *)
(* timed entry, a filler whose duration equals totalDuration (zero when    *)
(* the duration cannot be determined), and the run does not abort.         *)
C7_EmptyListAsClaimed ==
    (Compiled /\ Len(words) = 0)
        => /\ Len(Entries(lines)) = 1
           /\ Entries(lines)[1].path = BlankPath
           /\ Entries(lines)[1].duration = audioDuration

(* C7, amended: the filler's duration is totalDuration written to four     *)
(* decimals; a run over an empty word list in which neither the            *)
(* rasterizer nor the encoder fails ends with exit code 0 and a timeline.  *)
C7_EmptyListSingleFiller ==
    /\ (Compiled /\ Len(words) = 0)
          => /\ Len(Entries(lines)) = 1
             /\ Entries(lines)[1].path = BlankPath
             /\ Entries(lines)[1].duration = Round4(audioDuration)
    /\ (Chunked /\ Len(words) = 0 /\ pc = "exited" /\ failure = "none")
          => (exitCode = 0 /\ Compiled)

C7_Witness ==
    /\ Len(words) = 0 /\ Compiled /\ pc = "exited" /\ exitCode = 0
    /\ audioDuration = 0
    /\ DurationsOf(lines) = <<0>>

---------------------------------------------------------------------------
(* C8: in karaoke rendering a word is classified active if and only if     *)
(* its interval [start, end] meets the frame's window                      *)
(* [activeStart, activeEnd], for every window, also one with activeStart   *)
(* = 0 or activeEnd = 0.                                                   *)
C8_ActiveIffOverlap ==
    mode = "karaoke"
        => \A i \in 1..Len(svgs) : \A k \in 1..Len(frames[i].words) :
              LET wo == frames[i].words[k]
              IN  (svgs[i][k] = "highlight")
                     <=> ( /\ wo.start <= frames[i].activeEnd[1]
                           /\ wo.end >= frames[i].activeStart[1] )

---------------------------------------------------------------------------
(* C9: in karaoke mode, for input that satisfies the input invariant,      *)
(* every frame highlights exactly one word of its chunk, the word whose    *)
(* timestamps are the frame's window, also when consecutive words touch.   *)
C9_ExactlyOneHighlighted ==
    (mode = "karaoke" /\ InputInvariant(words))
        => \A i \in 1..Len(svgs) : \A k \in 1..Len(frames[i].words) :
              (svgs[i][k] = "highlight") <=> (frames[i].words[k] = words[i])

---------------------------------------------------------------------------
(* C10: when a run that created the temporary directory has ended, on any  *)
(* exit path, the directory and the rendered assets in it are gone.        *)
C10_TmpDirRemovedAtExit ==
    (pc = "exited" /\ tmpDir # "none") => (tmpDir = "removed" /\ tmpFiles = {})

---------------------------------------------------------------------------
(* Vocabulary of the later properties *)

\* loadWords has returned.
Loaded == pc \notin {"parseArgs", "load"} /\ failure \notin
             {"a required argument is missing", "words file missing", "words file malformed"}

\* runFFmpeg has been called.
EncoderInvoked == Compiled /\ pc \in {"finally", "exited"}

\* The timeline offset at which the n-th timed entry begins.
RECURSIVE OffsetOf(_, _)
OffsetOf(es, n) == IF n <= 1 THEN 0 ELSE OffsetOf(es, n - 1) + es[n - 1].duration

\* The rendered frame a content entry shows.
FrameOfEntry(e) == frameFiles[e.path.n + 1]

ContentEntries(es) == { n \in 1..Len(es) : es[n].path.name = "frame" }

---------------------------------------------------------------------------
(* C11: when the words file is malformed or missing, or the audio file is  *)
(* missing, the run ends with an error before any processing: no           *)
(* temporary directory is made, no frame is rendered and the encoder is    *)
(* not invoked.                                                            *)
C11_InputErrorsBeforeProcessing ==
    ( \/ failure \in {"words file missing", "words file malformed"}
      \/ audioFile = "missing" )
        => /\ tmpDir = "none"
           /\ frameFiles = << >>
           /\ tmpFiles = {}
           /\ ~EncoderInvoked
           /\ pc = "exited" => exitCode = 1

---------------------------------------------------------------------------
(* C12, as claimed: loadWords returns the wrapper shape; a bare array is   *)
(* wrapped with the language 'en', and a wrapper object without a          *)
(* language comes back with the language 'en'.                             *)
C12_WrapperAsClaimed ==
    Loaded =>
        /\ raw.shape = "array"
              => (wordsData.language = <<"en">> /\ wordsData.words = raw.words)
        /\ (raw.shape = "object" /\ raw.language = << >>)
              => wordsData.language = <<"en">>

(* C12, amended: loadWords wraps a bare array as {language 'en',           *)
(* language_probability 1, words}; a wrapper object comes back unchanged,  *)
(* so without a language when it has none; main then takes --lang, else    *)
(* the document's language, else 'en'.                                     *)
C12_LoadWordsAsWritten ==
    Loaded =>
        /\ raw.shape = "array"
              => wordsData = [language |-> <<"en">>, language_probability |-> <<1>>,
                              words |-> raw.words]
        /\ raw.shape = "object"
              => /\ wordsData.language = raw.language
                 /\ wordsData.language_probability = raw.language_probability
                 /\ wordsData.words = raw.words
        /\ detectedLang = IF optsLang # << >> THEN optsLang[1]
                          ELSE IF raw.shape = "object" /\ raw.language # << >>
                               THEN raw.language[1]
                               ELSE "en"

C12_Witness ==
    /\ Loaded /\ optsLang = << >>
    /\ raw.shape = "object" /\ raw.language = << >> /\ raw.words # << >>
    /\ wordsData.language = << >>
    /\ detectedLang = "en"

---------------------------------------------------------------------------
(* C15: for input that satisfies the input invariant, every content entry  *)
(* begins at a timeline offset (the sum of the durations before it) within *)
(* 0.01 s of its frame's start, for any number of frames.                  *)
C15_ContentStartsAtFrameStart ==
    (Compiled /\ Len(words) > 0 /\ InputInvariant(words))
        => \A n \in ContentEntries(Entries(lines)) :
              Abs(OffsetOf(Entries(lines), n) - FrameOfEntry(Entries(lines)[n]).start)
                 <= 1000

---------------------------------------------------------------------------
(* C16: in chunk and karaoke mode, for every pauseThreshold >= 0 given in  *)
(* the style, two consecutive words whose gap exceeds it lie in different  *)
(* units and the later word is the first word of its unit.                 *)
C16_PauseSplits ==
    (Chunked /\ Grouping /\ style.pauseThreshold # << >>)
        => \A i \in 1..(Len(words) - 1) :
              words[i + 1].start - words[i].end > style.pauseThreshold[1]
                 => /\ UnitOf(i) # UnitOf(i + 1)
                    /\ chunks[UnitOf(i + 1)].words[1] = words[i + 1]

---------------------------------------------------------------------------
(* C17: every content entry has the duration max(frame.end - frame.start,  *)
(* P), P being one output frame period (1 / the configured frame rate):    *)
(* it is positive and never shorter than one frame period.  One second is  *)
(* 100000 ticks, so d >= P reads d * fps >= 100000.                        *)
C17_FloorIsOneFramePeriod ==
    Compiled =>
        \A n \in ContentEntries(Entries(lines)) :
           LET d    == Entries(lines)[n].duration
               f    == FrameOfEntry(Entries(lines)[n])
               long == (f.end - f.start) * FpsOf(style)
           IN  /\ d > 0
               /\ d * FpsOf(style) >= 100000
               /\ d * FpsOf(style) = IF long > 100000 THEN long ELSE 100000

---------------------------------------------------------------------------
(* C18: in every mode buildChunks partitions its input: every unit is      *)
(* non-empty, the units' word lists in order make up the input word list,  *)
(* and a unit starts at its first word's start and ends at its last        *)
(* word's end.                                                             *)
C18_UnitsPartitionWords ==
    Chunked =>
        /\ Flatten([j \in 1..Len(chunks) |-> chunks[j].words]) = words
        /\ \A j \in 1..Len(chunks) :
              /\ Len(chunks[j].words) >= 1
              /\ chunks[j].start = chunks[j].words[1].start
              /\ chunks[j].end = chunks[j].words[Len(chunks[j].words)].end

C18_Witness ==
    /\ Chunked /\ mode = "chunk" /\ Len(words) = 3 /\ Len(chunks) = 2
    /\ Len(chunks[2].words) = 2
    /\ chunks[2].start = words[2].start /\ chunks[2].end = words[3].end
    /\ words[2].start - words[1].end > ConfiguredPauseThreshold

---------------------------------------------------------------------------
(* Vocabulary of the poll properties *)

\* The update_ids some run has selected for download, in run order.
SelectedIds == [k \in 1..Len(selections) |-> selections[k].update]

\* The offset the next run will load.
PersistedOffset == IF offsetFile = << >> THEN 0 ELSE offsetFile[1]

\* An audio or voice message, from the allowed chat when one is configured.
WantedMessage(u) ==
    /\ u.kind \in {"voice", "audio", "audioDocument"}
    /\ allowedChatId # << >> => u.chat = allowedChatId[1]

---------------------------------------------------------------------------
(* C13: over any sequence of poll runs, runs that fail after the offset is *)
(* saved included, no update is selected for download in more than one     *)
(* run.                                                                    *)
C13_NoUpdateSelectedTwice ==
    \A i, j \in 1..Len(selections) :
       i # j => SelectedIds[i] # SelectedIds[j]

C13_Witness ==
    /\ pollPc = "idle" /\ Len(selections) = 2
    /\ selections[1].outcome = "failed"
    /\ selections[2].outcome = "downloaded"
    /\ lastOffset = selections[1].update + 1

---------------------------------------------------------------------------
(* C14: every audio or voice message sent to the bot (from the allowed     *)
(* chat, when one is configured) is selected by some poll run, also when   *)
(* one poll returns several audio messages.  A run fetches only updates    *)
(* at or above the persisted offset, so a message the persisted offset has *)
(* passed must already have been selected.                                 *)
C14_NoAudioMessageSkipped ==
    \A id \in 1..Len(sent) :
       (WantedMessage(sent[id]) /\ id < PersistedOffset)
          => \E k \in 1..Len(selections) : SelectedIds[k] = id

===========================================================================
